---- MODULE Spec2Model ----
(***************************************************************************)
(* A model of two parts of the repository:                                 *)
(*                                                                         *)
(*  - Embedder (src/mindmeld/models/embedder_models.py): an in-memory      *)
(*    text -> vector cache filled lazily by get_encodings, written to its  *)
(*    backing file by dump, whose file is deleted by clear_cache;          *)
(*  - RoleClassifier (src/mmworkbench/components/role_classifier.py):      *)
(*    fit / dump / load with the hash-gated reuse of a previous model.     *)
(*                                                                         *)
(* The two parts share no state.  SpecEmb runs the Embedder operations,    *)
(* SpecRC the RoleClassifier operations.                                   *)
(***************************************************************************)
EXTENDS Integers, Sequences, FiniteSets

VARIABLES
    \* ---- Embedder ----
    cache,        \* self.cache: dict text -> vector (a function on its keys)
    cacheFile,    \* the file at self.cache_path: [exists, empty, corrupt, content]
    embModel,     \* self.model: the handle returned by load(**kwargs)
    embOp,        \* the last Embedder operation and its argument
    encodeLog,    \* the arguments of the encode calls made by the last operation
    encoded,      \* the value returned by the last get_encodings call
    sinceClear,   \* whether clear_cache was called on this Embedder, and the
                  \* texts get_encodings added to the cache since then
    \* ---- RoleClassifier ----
    model,        \* self._model
    roles,        \* self.roles
    hash,         \* self.hash
    ready,        \* self.ready
    dirty,        \* self.dirty
    config,       \* self.config
    artifact,     \* per path: the joblib file at model_path
    hashFile,     \* per path: the text file at model_path + '.hash'
    rcOp,         \* the last RoleClassifier operation and its arguments
    rcLog,        \* what the last RoleClassifier operation did
    \* ---- the hash of the training queries ----
    fp            \* a query tree, and the hash computed for it once done

embVars == <<cache, cacheFile, embModel, embOp, encodeLog, encoded, sinceClear>>
rcVars  == <<model, roles, hash, ready, dirty, config, artifact, hashFile, rcOp, rcLog>>
vars    == <<cache, cacheFile, embModel, embOp, encodeLog, encoded, sinceClear,
             model, roles, hash, ready, dirty, config, artifact, hashFile, rcOp, rcLog,
             fp>>

(***************************************************************************)
(*                               Embedder                                  *)
(***************************************************************************)

\* The texts callers ask encodings for.
Texts == {"a", "b"}

\* The longest text_list passed to get_encodings.
MaxTexts == 3

\* The embedding models load(**kwargs) can return (the "trained_data" option).
EmbModels == {"bert-base", "bert-large"}

\* Python's None where a vector is expected.
None == <<>>

\* An empty dict.
EmptyDict == [t \in {} |-> None]

\* dict.get(key, None)
DictGet(d, k) == IF k \in DOMAIN d THEN d[k] ELSE None

\* d[key] = value
DictPut(d, k, v) == [x \in (DOMAIN d) \cup {k} |-> IF x = k THEN v ELSE d[x]]

\* All sequences over S of length at most n.
SeqsUpTo(S, n) == UNION {[1..k -> S] : k \in 0..n}

\* The states of the cache file: absent; of size zero; not empty and not
\* deserializable; the pickle of a dict.
AbsentFile == [exists |-> FALSE, empty |-> FALSE, corrupt |-> FALSE, content |-> EmptyDict]
EmptyFile == [exists |-> TRUE, empty |-> TRUE, corrupt |-> FALSE, content |-> EmptyDict]
CorruptFile == [exists |-> TRUE, empty |-> FALSE, corrupt |-> TRUE, content |-> EmptyDict]
PickleFile(d) == [exists |-> TRUE, empty |-> FALSE, corrupt |-> FALSE, content |-> d]

\* No clear_cache call was made on the Embedder.
NotCleared == [cleared |-> FALSE, added |-> {}]

\* The vector the embedding model m yields for one text: a deterministic
\* function of the model and the text.
EncodeOne(m, t) == <<m, t>>

\* encode(text_list): one vector per text, in order.
encode(m, text_list) == [k \in 1..Len(text_list) |-> EncodeOne(m, text_list[k])]

\* [i for i, vec in enumerate(encoded) if vec is None]
cache_miss_indices(enc) ==
    SelectSeq([i \in 1..Len(enc) |-> i], LAMBDA i : enc[i] = None)

\* A faulty text_to_encode: the whole text_list is sent to encode.
text_to_encode_all(text_list, miss) == text_list

\* [text_list[i] for i in cache_miss_indices]
text_to_encode(text_list, miss) == [k \in 1..Len(miss) |-> text_list[miss[k]]]

\* A faulty loop body: the vector is stored at position i of encoded, not at
\* the position v of the miss.
FillStep_at_i(st, i, miss, tte, met) ==
    [enc |-> [st.enc EXCEPT ![i] = met[i]],
     cache |-> DictPut(st.cache, tte[i], met[i])]

\* A faulty loop body: the first encoded vector is cached for every miss.
FillStep_first_vector(st, i, miss, tte, met) ==
    [enc |-> [st.enc EXCEPT ![miss[i]] = met[i]],
     cache |-> DictPut(st.cache, tte[i], met[1])]

\* One pass of the loop "for i, v in enumerate(cache_miss_indices)":
\* encoded[v] = model_encoded_text[i]; self.cache[text_to_encode[i]] = model_encoded_text[i]
FillStep(st, i, miss, tte, met) ==
    [enc |-> [st.enc EXCEPT ![miss[i]] = met[i]],
     cache |-> DictPut(st.cache, tte[i], met[i])]

RECURSIVE FillLoop(_, _, _, _, _)
FillLoop(st, i, miss, tte, met) ==
    IF i > Len(miss) THEN st
    ELSE FillLoop(FillStep(st, i, miss, tte, met), i + 1, miss, tte, met)

\* A faulty __init__: a file that cannot be deserialized gives an empty cache.
EmbConstruct_fallback(m) ==
    /\ cache' = IF ~cacheFile.exists \/ cacheFile.empty \/ cacheFile.corrupt
                THEN EmptyDict ELSE cacheFile.content
    /\ embModel' = m
    /\ embOp' = [name |-> "construct", text_list |-> <<>>]
    /\ encodeLog' = <<>>
    /\ encoded' = <<>>
    /\ sinceClear' = NotCleared
    /\ UNCHANGED <<cacheFile>>
    /\ UNCHANGED <<rcVars, fp>>

\* A faulty __init__: the file's content is not loaded.
EmbConstruct_no_load(m) ==
    /\ cache' = EmptyDict
    /\ embModel' = m
    /\ embOp' = [name |-> "construct", text_list |-> <<>>]
    /\ encodeLog' = <<>>
    /\ encoded' = <<>>
    /\ sinceClear' = NotCleared
    /\ UNCHANGED <<cacheFile>>
    /\ UNCHANGED <<rcVars, fp>>

\* Embedder.__init__: the cache is empty when the file is absent or of size
\* zero, else it is the unpickled content of the file;
\* self.model = self.load(**kwargs). When pickle.load raises, construction
\* fails: there is no new Embedder, and the one in use stays as it is.
EmbConstruct(m) ==
    /\ IF ~cacheFile.exists \/ cacheFile.empty
       THEN /\ cache' = EmptyDict
            /\ embModel' = m
            /\ embOp' = [name |-> "construct", text_list |-> <<>>]
            /\ sinceClear' = NotCleared
       ELSE IF cacheFile.corrupt
       THEN /\ embOp' = [name |-> "construct_failed", text_list |-> <<>>]
            /\ UNCHANGED <<cache, embModel, sinceClear>>
       ELSE /\ cache' = cacheFile.content
            /\ embModel' = m
            /\ embOp' = [name |-> "construct", text_list |-> <<>>]
            /\ sinceClear' = NotCleared
    /\ encodeLog' = <<>>
    /\ encoded' = <<>>
    /\ UNCHANGED <<cacheFile>>
    /\ UNCHANGED <<rcVars, fp>>

\* A faulty get_encodings: the cache is written to its file after the call.
get_encodings_and_dump(text_list) ==
    LET enc0 == [i \in 1..Len(text_list) |-> DictGet(cache, text_list[i])]
        miss == cache_miss_indices(enc0)
        tte  == text_to_encode(text_list, miss)
        met  == encode(embModel, tte)
        fin  == FillLoop([enc |-> enc0, cache |-> cache], 1, miss, tte, met)
    IN  /\ encodeLog' = <<tte>>
        /\ cache' = fin.cache
        /\ encoded' = fin.enc
        /\ embOp' = [name |-> "get_encodings", text_list |-> text_list]
        /\ sinceClear' = IF sinceClear.cleared
                         THEN [sinceClear EXCEPT
                                 !.added = @ \cup {tte[k] : k \in 1..Len(tte)}]
                         ELSE sinceClear
        /\ cacheFile' = PickleFile(fin.cache)
        /\ UNCHANGED <<embModel>>
        /\ UNCHANGED <<rcVars, fp>>

\* Embedder.get_encodings(text_list)
get_encodings(text_list) ==
    LET enc0 == [i \in 1..Len(text_list) |-> DictGet(cache, text_list[i])]
        miss == cache_miss_indices(enc0)
        tte  == text_to_encode(text_list, miss)
        met  == encode(embModel, tte)
        fin  == FillLoop([enc |-> enc0, cache |-> cache], 1, miss, tte, met)
    IN  /\ encodeLog' = <<tte>>
        /\ cache' = fin.cache
        /\ encoded' = fin.enc
        /\ embOp' = [name |-> "get_encodings", text_list |-> text_list]
        /\ sinceClear' = IF sinceClear.cleared
                         THEN [sinceClear EXCEPT
                                 !.added = @ \cup {tte[k] : k \in 1..Len(tte)}]
                         ELSE sinceClear
        /\ UNCHANGED <<cacheFile, embModel>>
        /\ UNCHANGED <<rcVars, fp>>

\* Embedder.clear_cache(): removes the cache file when it exists.
clear_cache ==
    /\ cacheFile' = IF cacheFile.exists THEN AbsentFile ELSE cacheFile
    /\ embOp' = [name |-> "clear_cache", text_list |-> <<>>]
    /\ encodeLog' = <<>>
    /\ encoded' = <<>>
    /\ sinceClear' = [cleared |-> TRUE, added |-> {}]
    /\ UNCHANGED <<cache, embModel>>
    /\ UNCHANGED <<rcVars, fp>>

\* Embedder.dump(): pickles self.cache to the cache file.
EmbDump ==
    /\ cacheFile' = PickleFile(cache)
    /\ embOp' = [name |-> "dump", text_list |-> <<>>]
    /\ encodeLog' = <<>>
    /\ encoded' = <<>>
    /\ UNCHANGED <<cache, embModel, sinceClear>>
    /\ UNCHANGED <<rcVars, fp>>

\* Embedder.dump() stopped while writing: open(..., "wb") has truncated the
\* file, and pickle.dump wrote nothing (left |-> EmptyFile) or a part of the
\* pickle (left |-> CorruptFile).
EmbDumpInterrupted(left) ==
    /\ cacheFile' = left
    /\ embOp' = [name |-> "dump_interrupted", text_list |-> <<>>]
    /\ encodeLog' = <<>>
    /\ encoded' = <<>>
    /\ UNCHANGED <<cache, embModel, sinceClear>>
    /\ UNCHANGED <<rcVars, fp>>

EmbInit ==
    /\ cache = EmptyDict
    /\ cacheFile = AbsentFile
    /\ embModel \in EmbModels
    /\ embOp = [name |-> "construct", text_list |-> <<>>]
    /\ encodeLog = <<>>
    /\ encoded = <<>>
    /\ sinceClear = NotCleared

(***************************************************************************)
(*                             RoleClassifier                              *)
(***************************************************************************)

\* self.entity_type: the entity type this classifier is for.
EntityType == "city"

\* entity.entity.role of an entity annotated without a role (None).
NoRole == "None"

\* The labeled queries of the application. text is the raw query (its order
\* is the order of the raw strings), entities the annotated entities.
QueryPool ==
    { [text |-> 1, entities |-> <<[type |-> "city", role |-> "from"],
                                  [type |-> "city", role |-> "to"]>>],
      [text |-> 2, entities |-> <<[type |-> "time", role |-> "from"],
                                  [type |-> "city", role |-> "to"]>>],
      [text |-> 3, entities |-> <<[type |-> "city", role |-> NoRole],
                                  [type |-> "city", role |-> "from"]>>] }

\* The longest flattened query list of a training request.
MaxQueries == 1

\* The flattened query lists a training request can carry.
QueryLists == SeqsUpTo(QueryPool, MaxQueries)

\* The model configuration _get_model_config resolves to: the application's
\* configuration for this classifier.
Configs == {"logreg"}

\* self.config of a classifier that was never fitted or loaded (None).
NoConfig == ""

\* The model paths callers name. Callers dump to the paths of DumpPaths; the
\* other paths hold no file.
Paths == {"p1", "p2"}
DumpPaths == {"p1"}

\* previous_model_path=None
NoPath == ""

\* self.hash of a new classifier, and the content of no hash file ('').
EmptyHash == [config |-> NoConfig, queries |-> <<>>]

\* self._model of a classifier that holds no model (None).
NoModel == [trained |-> FALSE, config |-> NoConfig, data |-> {}]

\* A file that does not exist.
NoArtifact == [exists |-> FALSE, model |-> NoModel, roles |-> {}]
NoHashFile == [exists |-> FALSE, content |-> EmptyHash]

\* list.sort() on raw queries, by insertion.
RECURSIVE Insert(_, _)
Insert(x, s) ==
    IF s = <<>> THEN <<x>>
    ELSE IF x <= Head(s) THEN <<x>> \o s
    ELSE <<Head(s)>> \o Insert(x, Tail(s))

RECURSIVE Sort(_)
Sort(s) == IF s = <<>> THEN <<>> ELSE Insert(Head(s), Sort(Tail(s)))

\* _get_query_tree(raw=True) flattened: the raw text of every query.
RawQueries(queries) == [i \in 1..Len(queries) |-> queries[i].text]

\* A faulty hash of the queries: the raw queries are hashed as they come.
_get_queries_and_labels_hash_unsorted(queries) == RawQueries(queries)

\* RoleClassifier._get_queries_and_labels_hash: the raw queries are sorted
\* and hashed; hash_queries is injective (no collisions).
_get_queries_and_labels_hash(queries) == Sort(RawQueries(queries))

\* Classifier._get_model_hash: the hash of the queries' hash and the
\* configuration's hash.
_get_model_hash(cfg, queries) ==
    [config |-> cfg, queries |-> _get_queries_and_labels_hash(queries)]

\* Classifier._load_hash: the content of model_path + '.hash', '' without the file.
_load_hash(path) ==
    IF hashFile[path].exists THEN hashFile[path].content ELSE EmptyHash

\* Python truth of entity.entity.role
Truthy(role) == role # NoRole

\* The condition under which _get_queries_and_labels takes an entity as example.
IsExample(entity) == entity.type = EntityType /\ Truthy(entity.role)

\* The inner loop of _get_queries_and_labels over the entities of one query:
\* the (example, label) pairs appended for it.
RECURSIVE EntityLoop(_, _)
EntityLoop(query, idx) ==
    IF idx > Len(query.entities) THEN <<>>
    ELSE (IF IsExample(query.entities[idx])
          THEN <<[example |-> <<query.text, idx>>, label |-> query.entities[idx].role]>>
          ELSE <<>>)
         \o EntityLoop(query, idx + 1)

\* The outer loop over the queries.
RECURSIVE QueryLoop(_, _)
QueryLoop(queries, i) ==
    IF i > Len(queries) THEN <<>>
    ELSE EntityLoop(queries[i], 1) \o QueryLoop(queries, i + 1)

\* RoleClassifier._get_queries_and_labels
_get_queries_and_labels(queries) ==
    LET pairs == QueryLoop(queries, 1)
        examples == [i \in 1..Len(pairs) |-> pairs[i].example]
        labels == [i \in 1..Len(pairs) |-> pairs[i].label]
        unique_labels == {labels[i] : i \in 1..Len(labels)}
    IN  IF Cardinality(unique_labels) = 1
        THEN [raised |-> FALSE, examples |-> <<>>, labels |-> <<>>]
        ELSE IF NoRole \in unique_labels
        THEN [raised |-> TRUE, examples |-> <<>>, labels |-> <<>>]
        ELSE [raised |-> FALSE, examples |-> examples, labels |-> labels]

\* model.fit(examples, labels): training is deterministic and depends on the
\* configuration and on the labeled examples, not on their order.
Train(cfg, examples, labels) ==
    [trained |-> TRUE, config |-> cfg,
     data |-> { <<examples[i], labels[i],
                  Cardinality({j \in 1..Len(examples) : examples[j] = examples[i]})>> :
                i \in 1..Len(examples) }]

\* The in-memory state of the classifier, as one record.
Self == [model |-> model, roles |-> roles, hash |-> hash,
         ready |-> ready, dirty |-> dirty, config |-> config]

\* Classifier.__init__ and RoleClassifier.__init__
ClassifierInit ==
    [model |-> NoModel, roles |-> {}, hash |-> EmptyHash,
     ready |-> FALSE, dirty |-> FALSE, config |-> NoConfig]

\* RoleClassifier.load(model_path) applied to the state self.
load(self, path) ==
    IF ~artifact[path].exists
    THEN self
    ELSE LET m == artifact[path].model
         IN  [model |-> m,
              roles |-> artifact[path].roles,
              hash |-> IF m # NoModel THEN _load_hash(path) ELSE self.hash,
              ready |-> TRUE,
              dirty |-> FALSE,
              config |-> IF m # NoModel THEN m.config ELSE self.config]

\* Whether load(path) calls the loaded model's register_resources: the file is
\* read and holds a model.
Registers(path) == artifact[path].exists /\ artifact[path].model # NoModel

\* A faulty reuse test: the new fingerprint is compared with the classifier's
\* own hash, not with the one stored at previous_model_path.
Reuses_own_hash(new_hash, prev) == prev # NoPath /\ hash = new_hash

\* Whether fit takes the reuse branch.
Reuses(new_hash, prev) == prev # NoPath /\ _load_hash(prev) = new_hash

\* A faulty fit: self.hash is not set to the new fingerprint.
FitTrain_keeps_hash(self, cfg, new_hash, got) ==
    LET trained == got.examples # <<>>
    IN  [model |-> IF trained THEN Train(cfg, got.examples, got.labels) ELSE self.model,
         roles |-> IF trained THEN {got.labels[i] : i \in 1..Len(got.labels)} ELSE self.roles,
         hash |-> self.hash,
         ready |-> TRUE,
         dirty |-> TRUE,
         config |-> IF trained THEN cfg ELSE self.config]

\* RoleClassifier.fit past the reuse branch: the state after training.
FitTrain(self, cfg, new_hash, got) ==
    LET trained == got.examples # <<>>
    IN  [model |-> IF trained THEN Train(cfg, got.examples, got.labels) ELSE self.model,
         roles |-> IF trained THEN {got.labels[i] : i \in 1..Len(got.labels)} ELSE self.roles,
         hash |-> new_hash,
         ready |-> TRUE,
         dirty |-> TRUE,
         config |-> IF trained THEN cfg ELSE self.config]

SetSelf(s) ==
    /\ model' = s.model
    /\ roles' = s.roles
    /\ hash' = s.hash
    /\ ready' = s.ready
    /\ dirty' = s.dirty
    /\ config' = s.config

\* What an operation did: examples were extracted, model.fit was invoked,
\* load was invoked, its read failed, an error was raised to the caller; for
\* a dump, whether it follows a fit that did not load and whether it replaced
\* another fingerprint stored at its path; whether the model's
\* register_resources and predict were invoked, and whether a result was
\* returned.
NoLog == [extracted |-> FALSE, fit_called |-> FALSE, loaded |-> FALSE,
          load_failed |-> FALSE, raised |-> FALSE,
          after_fit |-> FALSE, replaced |-> FALSE,
          registered |-> FALSE, predict_called |-> FALSE, answered |-> FALSE]

\* RoleClassifier(...): a new classifier object (a new process) over the same disk.
NewClassifier ==
    /\ SetSelf(ClassifierInit)
    /\ rcOp' = [name |-> "new", path |-> NoPath, new_hash |-> EmptyHash]
    /\ rcLog' = NoLog
    /\ UNCHANGED <<artifact, hashFile>>
    /\ UNCHANGED <<embVars, fp>>

\* RoleClassifier.fit(queries, previous_model_path=prev) under configuration cfg
fit(cfg, queries, prev) ==
    LET new_hash == _get_model_hash(cfg, queries)
        got == _get_queries_and_labels(queries)
    IN  /\ rcOp' = [name |-> "fit", path |-> prev, new_hash |-> new_hash]
        /\ IF Reuses(new_hash, prev)
           THEN /\ SetSelf(load(Self, prev))
                /\ rcLog' = [NoLog EXCEPT !.loaded = TRUE,
                                          !.load_failed = ~artifact[prev].exists,
                                          !.registered = Registers(prev)]
           ELSE IF got.raised
           THEN /\ SetSelf(Self)
                /\ rcLog' = [NoLog EXCEPT !.extracted = TRUE, !.raised = TRUE]
           ELSE /\ SetSelf(FitTrain(Self, cfg, new_hash, got))
                /\ rcLog' = [NoLog EXCEPT !.extracted = TRUE,
                                          !.fit_called = (got.examples # <<>>)]
        /\ UNCHANGED <<artifact, hashFile>>
        /\ UNCHANGED <<embVars, fp>>

\* RoleClassifier.dump(model_path)
dump(path) ==
    /\ artifact' = [artifact EXCEPT ![path] =
                        [exists |-> TRUE, model |-> model, roles |-> roles]]
    /\ hashFile' = [hashFile EXCEPT ![path] = [exists |-> TRUE, content |-> hash]]
    /\ dirty' = FALSE
    /\ rcOp' = [name |-> "dump", path |-> path, new_hash |-> EmptyHash]
    /\ rcLog' = [NoLog EXCEPT
                    !.after_fit = (rcOp.name = "fit" /\ ~rcLog.loaded),
                    !.replaced = (hashFile[path].exists /\ hashFile[path].content # hash)]
    /\ UNCHANGED <<model, roles, hash, ready, config>>
    /\ UNCHANGED <<embVars, fp>>

\* RoleClassifier.dump(model_path) stopped between its two writes: joblib.dump
\* has written the model file, the hash file is not written and self.dirty
\* is not reset.
DumpInterrupted(path) ==
    /\ artifact' = [artifact EXCEPT ![path] =
                        [exists |-> TRUE, model |-> model, roles |-> roles]]
    /\ rcOp' = [name |-> "dump_interrupted", path |-> path, new_hash |-> EmptyHash]
    /\ rcLog' = NoLog
    /\ UNCHANGED <<hashFile, model, roles, hash, ready, dirty, config>>
    /\ UNCHANGED <<embVars, fp>>

\* The model file at path is removed from the disk (by its owner, outside the
\* classifier); the hash file stays. This is the missing file that load
\* handles as OSError/IOError.
RemoveArtifact(path) ==
    /\ artifact[path].exists
    /\ artifact' = [artifact EXCEPT ![path] = NoArtifact]
    /\ rcOp' = [name |-> "remove", path |-> path, new_hash |-> EmptyHash]
    /\ rcLog' = NoLog
    /\ UNCHANGED <<hashFile, model, roles, hash, ready, dirty, config>>
    /\ UNCHANGED <<embVars, fp>>

\* RoleClassifier.load(model_path) called by the owner
Load(path) ==
    /\ SetSelf(load(Self, path))
    /\ rcOp' = [name |-> "load", path |-> path, new_hash |-> EmptyHash]
    /\ rcLog' = [NoLog EXCEPT !.loaded = TRUE, !.load_failed = ~artifact[path].exists,
                              !.registered = Registers(path)]
    /\ UNCHANGED <<artifact, hashFile>>
    /\ UNCHANGED <<embVars, fp>>

\* A faulty test in predict: the classifier's ready flag is tested, not its model.
HoldsModel_ready(m) == ready

\* The test "self._model" of predict: the classifier holds a model.
HoldsModel(m) == m # NoModel

\* RoleClassifier.predict(query, entities, entity_index): without a model an
\* error is logged and nothing is returned; else the model's resources are
\* registered and the model's prediction is returned.
predict ==
    /\ rcOp' = [name |-> "predict", path |-> NoPath, new_hash |-> EmptyHash]
    /\ rcLog' = IF ~HoldsModel(model)
                THEN NoLog
                ELSE [NoLog EXCEPT !.registered = TRUE, !.predict_called = TRUE,
                                   !.answered = TRUE]
    /\ UNCHANGED <<model, roles, hash, ready, dirty, config, artifact, hashFile>>
    /\ UNCHANGED <<embVars, fp>>

RCInit ==
    /\ model = ClassifierInit.model
    /\ roles = ClassifierInit.roles
    /\ hash = ClassifierInit.hash
    /\ ready = ClassifierInit.ready
    /\ dirty = ClassifierInit.dirty
    /\ config = ClassifierInit.config
    /\ artifact = [p \in Paths |-> NoArtifact]
    /\ hashFile = [p \in Paths |-> NoHashFile]
    /\ rcOp = [name |-> "new", path |-> NoPath, new_hash |-> EmptyHash]
    /\ rcLog = NoLog

(***************************************************************************)
(*                   The hash of a tree of training queries                *)
(***************************************************************************)

\* The query tree groups the queries (by domain and intent): at most
\* MaxGroups groups of at most MaxGroupSize queries.
MaxGroups == 2
MaxGroupSize == 2
QueryTrees == SeqsUpTo(SeqsUpTo(QueryPool, MaxGroupSize), MaxGroups)

\* resource_loader.flatten_query_tree: the queries of the groups, group after
\* group.
RECURSIVE flatten_query_tree(_)
flatten_query_tree(tree) ==
    IF tree = <<>> THEN <<>> ELSE Head(tree) \o flatten_query_tree(Tail(tree))

\* No hash is computed yet for the tree.
Pending(tree) == [tree |-> tree, done |-> FALSE, hash |-> <<>>]

\* _get_queries_and_labels_hash applied to the query tree of fp.
HashQueries ==
    /\ ~fp.done
    /\ fp' = [fp EXCEPT !.done = TRUE,
                        !.hash = _get_queries_and_labels_hash(flatten_query_tree(fp.tree))]
    /\ UNCHANGED <<embVars, rcVars>>

(***************************************************************************)
(*                            Specifications                               *)
(***************************************************************************)

Init == EmbInit /\ RCInit /\ fp = Pending(<<>>)

\* The hash is computed for every query tree.
HashInit == EmbInit /\ RCInit /\ \E tree \in QueryTrees : fp = Pending(tree)
HashNext == HashQueries
SpecHash == HashInit /\ [][HashNext]_vars

EmbNext ==
    \/ \E m \in EmbModels : EmbConstruct(m)
    \/ \E text_list \in SeqsUpTo(Texts, MaxTexts) : get_encodings(text_list)
    \/ clear_cache
    \/ EmbDump
    \/ \E left \in {EmptyFile, CorruptFile} : EmbDumpInterrupted(left)

RCNext ==
    \/ NewClassifier
    \/ \E cfg \in Configs, queries \in QueryLists, prev \in Paths \cup {NoPath} :
          fit(cfg, queries, prev)
    \/ \E path \in DumpPaths : dump(path)
    \/ \E path \in DumpPaths : DumpInterrupted(path)
    \/ \E path \in DumpPaths : RemoveArtifact(path)
    \/ \E path \in Paths : Load(path)
    \/ predict

\* The Embedder operations when every Embedder built over the cache file uses
\* the same embedding model.
EmbNextSameModel ==
    \/ EmbConstruct(embModel)
    \/ \E text_list \in SeqsUpTo(Texts, MaxTexts) : get_encodings(text_list)
    \/ clear_cache
    \/ EmbDump
    \/ \E left \in {EmptyFile, CorruptFile} : EmbDumpInterrupted(left)

SpecEmb == Init /\ [][EmbNext]_vars
SpecEmbSameModel == Init /\ [][EmbNextSameModel]_vars
SpecRC == Init /\ [][RCNext]_vars

(***************************************************************************)
(*                    Properties of the Embedder (SpecEmb)                  *)
(***************************************************************************)

\* The texts of text_list that are not keys of the dict d, in their order.
Misses(text_list, d) == SelectSeq(text_list, LAMBDA t : t \notin DOMAIN d)

\* The last operation was a get_encodings call.
AfterGetEncodings == embOp.name = "get_encodings"

\* C4: get_encodings never invokes encode with an empty batch: every encode
\* call of every operation has at least one text.
C4_NeverEncodesEmptyBatch ==
    \A k \in 1..Len(encodeLog) : encodeLog[k] # <<>>

\* C5: a get_encodings call with at least one cache miss invokes encode
\* exactly once, on exactly the texts of text_list that were not in the cache
\* when the call started, in their original order; no text that was in the
\* cache is passed to encode.
C5_EncodesExactlyTheMisses ==
    [][ (embOp'.name = "get_encodings"
           /\ \E i \in 1..Len(embOp'.text_list) : embOp'.text_list[i] \notin DOMAIN cache)
        => /\ encodeLog' = << Misses(embOp'.text_list, cache) >>
           /\ \A k \in 1..Len(encodeLog') : \A j \in 1..Len(encodeLog'[k]) :
                  encodeLog'[k][j] \notin DOMAIN cache ]_vars

\* C5 witness: a get_encodings call in which some texts were hits and some
\* were misses, the same missing text occurring twice.
C5_Witness ==
    /\ AfterGetEncodings
    /\ Len(encodeLog) = 1
    /\ Len(encodeLog[1]) >= 2
    /\ Len(encodeLog[1]) < Len(embOp.text_list)
    /\ encodeLog[1][1] = encodeLog[1][2]

\* C6: get_encodings returns a list as long as text_list whose position i
\* holds the vector for text_list[i]: the vector the cache held when the call
\* started on a hit, the freshly encoded vector on a miss.
C6_ResultFollowsInput ==
    [][ embOp'.name = "get_encodings"
        => LET text_list == embOp'.text_list
           IN  /\ Len(encoded') = Len(text_list)
               /\ \A i \in 1..Len(text_list) :
                     encoded'[i] = IF text_list[i] \in DOMAIN cache
                                   THEN cache[text_list[i]]
                                   ELSE EncodeOne(embModel, text_list[i]) ]_vars

\* C6 witness: a call whose list repeats a text, with a miss that follows a
\* hit, and with a hit whose cached vector is not the one the current model
\* would encode.
C6_Witness ==
    /\ AfterGetEncodings
    /\ \E i, j \in 1..Len(embOp.text_list) :
          i # j /\ embOp.text_list[i] = embOp.text_list[j]
    /\ encodeLog[1] # <<>>
    /\ embOp.text_list[1] \notin {encodeLog[1][k] : k \in 1..Len(encodeLog[1])}
    /\ \E i \in 1..Len(encoded) : encoded[i] # EncodeOne(embModel, embOp.text_list[i])

\* C7: after clear_cache the Embedder behaves as with a fresh empty cache: the
\* get_encodings call that follows passes every text of its list to encode,
\* the texts that were cached before the clear included.
C7_ClearCacheEmptiesCache ==
    [][ (embOp.name = "clear_cache" /\ embOp'.name = "get_encodings")
        => \A i \in 1..Len(embOp'.text_list) :
              \E k \in 1..Len(encodeLog') : \E j \in 1..Len(encodeLog'[k]) :
                  encodeLog'[k][j] = embOp'.text_list[i] ]_vars

(***************************************************************************)
(*                 Properties of the RoleClassifier (SpecRC)               *)
(***************************************************************************)

\* The last operation was a fit called with a previous_model_path whose
\* stored fingerprint equals the fingerprint computed for the request.
\* (fit writes no file, so the files are those the call started with.)
FitWithMatchingPrior ==
    /\ rcOp.name = "fit"
    /\ rcOp.path # NoPath
    /\ hashFile[rcOp.path].exists
    /\ hashFile[rcOp.path].content = rcOp.new_hash

\* The last operation was a fit called without previous_model_path, or with
\* one whose fingerprint is absent or differs from the computed one.
FitWithoutMatchingPrior ==
    /\ rcOp.name = "fit"
    /\ \/ rcOp.path = NoPath
       \/ ~hashFile[rcOp.path].exists
       \/ hashFile[rcOp.path].content # rcOp.new_hash

\* What fit produces on a new classifier for a request.
FreshFit(cfg, queries) ==
    FitTrain(ClassifierInit, cfg, _get_model_hash(cfg, queries),
             _get_queries_and_labels(queries))

\* The role values, None included, of the entities of the classifier's
\* entity type in a query list.
TypeRoles(queries) ==
    UNION { { queries[i].entities[j].role :
                j \in { k \in 1..Len(queries[i].entities) :
                          queries[i].entities[k].type = EntityType } } :
            i \in 1..Len(queries) }

\* C1: a fit whose previous_model_path stores the fingerprint computed for the
\* request does not extract examples and does not invoke the model's fit: it
\* loads the artifact stored at that path.
C1_MatchingFingerprintSkipsFit ==
    FitWithMatchingPrior
    => /\ ~rcLog.extracted
       /\ ~rcLog.fit_called
       /\ rcLog.loaded
       /\ artifact[rcOp.path].exists
            => model = artifact[rcOp.path].model /\ roles = artifact[rcOp.path].roles

\* C1 witness: a fit found its fingerprint at previous_model_path and loaded a
\* trained model from it.
C1_Witness ==
    /\ FitWithMatchingPrior
    /\ rcLog.loaded
    /\ ~rcLog.load_failed
    /\ model.trained

\* C2: a fit without a matching stored fingerprint does not load the prior
\* artifact and goes on to extract the training examples; the dump(path) that
\* follows it leaves path + '.hash' holding exactly the fingerprint computed
\* by that fit.
C2_MismatchTrainsAndDumpStoresNewHash ==
    [][ /\ (FitWithoutMatchingPrior)' => (~rcLog'.loaded /\ rcLog'.extracted)
        /\ (rcOp.name = "fit" /\ ~rcLog.loaded /\ rcOp'.name = "dump")
             => hashFile'[rcOp'.path] = [exists |-> TRUE, content |-> rcOp.new_hash] ]_vars

\* C2 witness: a dump that follows a fit which did not load, to a path that
\* stored another fingerprint before.
C2_Witness ==
    /\ rcOp.name = "dump"
    /\ rcLog.after_fit
    /\ rcLog.replaced
    /\ hashFile[rcOp.path].content = hash

\* C3: whenever fit reuses a prior artifact because the stored fingerprint
\* equals the computed one, the model and the roles it loads are those a fresh
\* fit of a request with that fingerprint produces.
C3_ReusedArtifactIsWhatFitProduces ==
    (FitWithMatchingPrior /\ rcLog.loaded /\ ~rcLog.load_failed)
    => \A cfg \in Configs, queries \in QueryLists :
          _get_model_hash(cfg, queries) = rcOp.new_hash
          => /\ model = FreshFit(cfg, queries).model
             /\ roles = FreshFit(cfg, queries).roles

\* C8: a fit that reaches training on data holding an entity of the
\* classifier's type without a role, together with another role, raises an
\* error and leaves model, hash, ready and dirty unchanged.
C8_MissingRoleFailsFit ==
    [][ \A cfg \in Configs, queries \in QueryLists, prev \in Paths \cup {NoPath} :
          ( /\ fit(cfg, queries, prev)
            /\ rcLog'.extracted
            /\ NoRole \in TypeRoles(queries)
            /\ TypeRoles(queries) # {NoRole} )
          => /\ rcLog'.raised
             /\ ~rcLog'.fit_called
             /\ UNCHANGED <<model, hash, ready, dirty>> ]_vars

\* C9: a fit that reaches training on data whose entities of the classifier's
\* type all carry one and the same role does not invoke the model's fit and
\* leaves the classifier ready and without a model, whatever it held before.
C9_SingleRoleLeavesUntrained ==
    [][ \A cfg \in Configs, queries \in QueryLists, prev \in Paths \cup {NoPath} :
          ( /\ fit(cfg, queries, prev)
            /\ rcLog'.extracted
            /\ Cardinality(TypeRoles(queries)) = 1
            /\ NoRole \notin TypeRoles(queries) )
          => /\ ~rcLog'.fit_called
             /\ ready'
             /\ model' = NoModel ]_vars

\* C10: after a load whose artifact is missing or unreadable the classifier
\* is not ready.
C10_FailedLoadLeavesUnready ==
    (rcOp.name = "load" /\ rcLog.load_failed) => ~ready

\* C11: predict called while the classifier holds no model returns no result
\* and invokes neither the model's register_resources nor its predict.
C11_PredictWithoutModelReturnsNothing ==
    (rcOp.name = "predict" /\ model = NoModel)
    => /\ ~rcLog.answered
       /\ ~rcLog.predict_called
       /\ ~rcLog.registered

\* C11 witness: predict on a classifier that is ready after a fit that
\* skipped training and holds no model.
C11_Witness ==
    /\ rcOp.name = "predict"
    /\ model = NoModel
    /\ ready
    /\ hash # EmptyHash
    /\ ~rcLog.answered

\* Every key of the dict d maps to the vector the model m encodes for it.
HoldsEncodings(d, m) == \A t \in DOMAIN d : d[t] = EncodeOne(m, t)

\* C12: with one embedding model behind the cache and its file, every key of
\* the in-memory cache maps to the vector encode yields for it after every
\* operation, and get_encodings changes the value of no key that was present.
C12_CacheHoldsEncodings ==
    [][ /\ HoldsEncodings(cache', embModel')
        /\ embOp'.name = "get_encodings"
             => \A t \in DOMAIN cache : t \in DOMAIN cache' /\ cache'[t] = cache[t] ]_vars

\* C12 witness: after a dump of a part of the texts, a get_encodings call with
\* a hit and a miss left every text in the cache.
C12_Witness ==
    /\ AfterGetEncodings
    /\ cacheFile.exists
    /\ cacheFile.content # EmptyDict
    /\ DOMAIN cache = Texts
    /\ DOMAIN cacheFile.content # Texts
    /\ encodeLog[1] # <<>>
    /\ Len(encodeLog[1]) < Len(embOp.text_list)

\* The texts passed to encode by the last operation.
EncodedTexts(log) == UNION { {log[k][j] : j \in 1..Len(log[k])} : k \in 1..Len(log) }

\* The cache file is the pickle of a dict.
IsPickle(f) == f.exists /\ ~f.empty /\ ~f.corrupt

\* C13: get_encodings leaves the cache file as it is, in existence and in
\* content; only a dump call writes the file.
C13_OnlyDumpWritesTheFile ==
    [][ /\ embOp'.name = "get_encodings" => cacheFile' = cacheFile
        /\ (cacheFile' # cacheFile /\ cacheFile'.exists)
             => embOp'.name \in {"dump", "dump_interrupted"} ]_vars

\* C13 witness: a get_encodings call added a text to the cache while the
\* file holds the pickle of a smaller dict.
C13_Witness ==
    /\ AfterGetEncodings
    /\ encodeLog[1] # <<>>
    /\ IsPickle(cacheFile)
    /\ cacheFile.content # EmptyDict
    /\ DOMAIN cacheFile.content # DOMAIN cache

\* C14: dump writes the whole in-memory mapping; an Embedder constructed
\* right after a dump holds exactly the mapping that was dumped; and in the
\* first get_encodings call of an Embedder constructed from a dumped file
\* every text of the file is a hit with the vector of the file, not passed
\* to encode.
C14_DumpThenConstructRoundTrip ==
    [][ /\ embOp'.name = "dump" => (IsPickle(cacheFile') /\ cacheFile'.content = cache)
        /\ (embOp.name = "dump" /\ embOp'.name = "construct") => cache' = cache
        /\ (embOp.name = "construct" /\ IsPickle(cacheFile)
              /\ embOp'.name = "get_encodings")
             => \A i \in 1..Len(embOp'.text_list) :
                   embOp'.text_list[i] \in DOMAIN cacheFile.content
                   => /\ encoded'[i] = cacheFile.content[embOp'.text_list[i]]
                      /\ embOp'.text_list[i] \notin EncodedTexts(encodeLog') ]_vars

\* C14 witness: an Embedder constructed over a dumped file, with another
\* embedding model than the one that filled it, holds the dumped mapping and
\* answered a get_encodings call from it without encoding a text.
C14_Witness ==
    /\ AfterGetEncodings
    /\ sinceClear = NotCleared
    /\ IsPickle(cacheFile)
    /\ cache = cacheFile.content
    /\ embOp.text_list # <<>>
    /\ encodeLog[1] = <<>>
    /\ encoded[1] # EncodeOne(embModel, embOp.text_list[1])

\* C15: a constructed Embedder has an empty cache when the file is absent or
\* of size zero and the file's content when the file is a pickle; over a
\* file that is not empty and cannot be deserialized construction fails and
\* yields no Embedder.
C15_ConstructionFollowsTheFile ==
    /\ embOp.name = "construct"
         => /\ (~cacheFile.exists \/ cacheFile.empty) => cache = EmptyDict
            /\ IsPickle(cacheFile) => cache = cacheFile.content
            /\ ~cacheFile.corrupt
    /\ embOp.name = "construct_failed" => cacheFile.corrupt

\* C15 witness: construction failed over a file left by a dump that stopped
\* in the middle of its write, while texts were cached.
C15_Witness ==
    /\ embOp.name = "construct_failed"
    /\ cacheFile.corrupt
    /\ cache # EmptyDict

\* C18: a dump that follows a clear_cache of the same Embedder writes only
\* the entries get_encodings added after the clear.
C18_DumpAfterClearWritesOnlyNewEntries ==
    (embOp.name = "dump" /\ sinceClear.cleared)
    => (IsPickle(cacheFile) /\ DOMAIN cacheFile.content \subseteq sinceClear.added)

(***************************************************************************)
(*                 Properties of the queries' hash (SpecHash)              *)
(***************************************************************************)

\* How many queries of the tree have the raw text t.
Occurrences(tree, t) ==
    LET flat == flatten_query_tree(tree)
    IN  Cardinality({i \in 1..Len(flat) : flat[i].text = t})

\* The raw texts from t on in increasing order, each as often as it occurs in
\* the tree: a sequence that depends on the multiset of raw queries alone.
RECURSIVE ByOccurrences(_, _)
ByOccurrences(tree, t) ==
    IF t > Cardinality(QueryPool) THEN <<>>
    ELSE [k \in 1..Occurrences(tree, t) |-> t] \o ByOccurrences(tree, t + 1)

\* C16: the hashed sequence of a query tree is the one its multiset of raw
\* queries determines, whatever the order and the grouping of the queries.
C16_QueryHashDependsOnMultisetOnly ==
    fp.done => fp.hash = ByOccurrences(fp.tree, 1)

\* C16 witness: the hash of a tree of two groups whose queries do not come
\* in sorted order.
C16_Witness ==
    /\ fp.done
    /\ Len(fp.tree) = 2
    /\ Len(flatten_query_tree(fp.tree)) >= 3
    /\ fp.hash # RawQueries(flatten_query_tree(fp.tree))

(***************************************************************************)
(*            More properties of the RoleClassifier (SpecRC)               *)
(***************************************************************************)

\* C17: after a dump, and after a dump stopped between its two writes, the
\* fingerprint stored beside the written model file is the fingerprint of the
\* model just written, the classifier's hash.
C17_HashFileBelongsToArtifact ==
    (rcOp.name \in {"dump", "dump_interrupted"} /\ hashFile[rcOp.path].exists)
    => hashFile[rcOp.path].content = hash

\* C19: whenever fit returns without raising, the classifier is ready.
C19_FitLeavesReady ==
    (rcOp.name = "fit" /\ ~rcLog.raised) => ready

\* C20: after a load that read the model file, the classifier's hash is the
\* fingerprint stored beside it.
C20_LoadTakesStoredHash ==
    (rcOp.name = "load" /\ ~rcLog.load_failed /\ hashFile[rcOp.path].exists)
    => hash = hashFile[rcOp.path].content

====
